---------------------------- MODULE Spec2Model ----------------------------
(***************************************************************************)
(* The two scripts of the repository as one state machine:                 *)
(*   camera_pulse/camera_pulse.py  counter output, continuous pulse train  *)
(*   tone/tone.py                  analog output, finite buffered tone     *)
(* A behaviour is one run of one script (chosen in Init).  The driver is   *)
(* modelled by what each call does to the task it is called on; every      *)
(* driver call either returns or raises.  input() returns a line or raises *)
(* EOFError; plt.show() blocks until the figure window is closed.          *)
(*                                                                         *)
(* Numbers.  Times are integers in milliseconds.  Floating point values    *)
(* are fixed point integers in units of 1/Milli, products truncated        *)
(* toward zero.  np.sin is Bhaskara's rational approximation               *)
(*   sin(pi*u) ~ 16u(1-u) / (5 - 4u(1-u)),  0 <= u <= 1                     *)
(* (absolute error below 0.002, exact at u = 0, 1/2, 1).                   *)
(***************************************************************************)
EXTENDS Integers, Sequences, FiniteSets

\* ------------------------------------------------------------ constants
CAMERA_FPS == 100

FREQUENCY == 500

\* DURATION = 0.25 s, in milliseconds
DURATION_MS == 250

SAMPLE_RATE == 44100

\* resolution of the fixed point representation of float values
Milli == 1000

\* how many pulses of the (endless) pulse train are counted
MaxPulses == 3

\* ------------------------------------------------------ signal generation
\* int(SAMPLE_RATE * DURATION)
num_timesteps == (SAMPLE_RATE * DURATION_MS) \div 1000

\* np.linspace(0, DURATION, n, endpoint=False): sample i (from 1) is at
\* (i-1) * DURATION / n seconds; the value kept is the numerator over t_den(n).
linspace(n) == [i \in 1..n |-> (i - 1) * DURATION_MS]

t_den(n) == n * 1000

t == linspace(num_timesteps)

RECURSIVE GCD(_, _)
GCD(a, b) == IF b = 0 THEN a ELSE GCD(b, a % b)

\* Milli * sin(pi * a / d) for 0 <= a <= d
HalfWave(a, d) == (Milli * 16 * a * (d - a)) \div (5 * d * d - 4 * a * (d - a))

\* Milli * sin(2 * pi * n / d) for a fraction n/d >= 0 of a turn
sin_turns(n, d) ==
    LET m  == n % d
        g  == GCD(d, m)
        mm == m \div g
        dd == d \div g
    IN  IF 2 * mm < dd THEN HalfWave(2 * mm, dd)
                       ELSE 0 - HalfWave(2 * mm - dd, dd)

\* tone = np.sin(2 * np.pi * FREQUENCY * t)
tone == [i \in 1..Len(t) |-> sin_turns(FREQUENCY * t[i], t_den(Len(t)))]

\* x * 2.5, truncated toward zero
Times2p5(x) == IF x >= 0 THEN (x * 25) \div 10 ELSE 0 - ((0 - x) * 25) \div 10

\* variant: the tone shifted to 0 .. 5 V
tone_scaled_offset == [i \in 1..Len(tone) |-> Times2p5(tone[i]) + 2500]

\* tone_scaled = tone * 2.5
tone_scaled == [i \in 1..Len(tone) |-> Times2p5(tone[i])]

\* variant: a timeout shorter than the tone
TIMEOUT_half == DURATION_MS \div 2

\* wait_until_done(timeout=DURATION + 1), in milliseconds
TIMEOUT == DURATION_MS + 1000

\* ------------------------------------------------------------------ state
VARIABLES
    script,   \* which script this run executes
    pc,       \* the statement the script is at
    task,     \* the driver's state of each nidaqmx.Task object
    calls,    \* the calls issued so far, in order, each with its outcome
    err,      \* the exception propagating out of the script, or "none"
    stdin,    \* what standard input holds: "empty", "line" or "eof"
    inputRead,\* input() has returned a line
    paced,    \* the device generates samples at the configured rate
    clock,    \* milliseconds since the analog output task was started
    pulses,   \* pulses generated on the counter output (counted to MaxPulses)
    figure    \* the matplotlib figure

vars == <<script, pc, task, calls, err, stdin, inputRead, paced, clock, pulses, figure>>

Scripts == {"camera_pulse", "tone"}

NoChan == [kind |-> "none", physical |-> "", freq |-> 0, duty_cycle |-> 0]

NoTiming == [kind |-> "none", rate |-> 0, sample_mode |-> "none", samps_per_chan |-> 0]

NoTask == [state |-> "none", chan |-> NoChan, timing |-> NoTiming,
           running |-> FALSE, buffer |-> <<>>, closes |-> 0]

NoFigure == [x |-> <<>>, y |-> <<>>, xlabel |-> "", ylabel |-> "", window |-> "none"]

\* the names bound by each script's with-statement, in the order they are opened
WithTasks(s) == IF s = "camera_pulse" THEN <<"co_task", "ci_task">> ELSE <<"task">>

\* variant: tasks closed in the order they were opened
Reverse_same(q) == q

Reverse(q) == [i \in 1..Len(q) |-> q[Len(q) + 1 - i]]

\* a with-statement exits its context managers in reverse order of entry
ExitOrder(s) == Reverse(WithTasks(s))

\* add_co_pulse_chan_freq("Dev2/ctr0", freq=CAMERA_FPS, duty_cycle=0.2)
CoPulseChan == [kind |-> "co_pulse_freq", physical |-> "Dev2/ctr0",
                freq |-> CAMERA_FPS, duty_cycle |-> (2 * Milli) \div 10]

\* variant: a finite pulse train
ImplicitTiming_finite == [kind |-> "implicit", rate |-> 0, sample_mode |-> "FINITE",
                          samps_per_chan |-> 1000]

\* cfg_implicit_timing(sample_mode=CONTINUOUS); samps_per_chan is the driver's default
ImplicitTiming == [kind |-> "implicit", rate |-> 0, sample_mode |-> "CONTINUOUS",
                   samps_per_chan |-> 1000]

\* add_ao_voltage_chan("Dev2/ao0")
AoVoltageChan == [kind |-> "ao_voltage", physical |-> "Dev2/ao0", freq |-> 0, duty_cycle |-> 0]

\* variant: one second of samples asked for, whatever the buffer holds
SampClkTiming_oneSecond == [kind |-> "samp_clk", rate |-> SAMPLE_RATE, sample_mode |-> "FINITE",
                            samps_per_chan |-> SAMPLE_RATE]

\* cfg_samp_clk_timing(SAMPLE_RATE, sample_mode=FINITE, samps_per_chan=num_timesteps)
SampClkTiming == [kind |-> "samp_clk", rate |-> SAMPLE_RATE, sample_mode |-> "FINITE",
                  samps_per_chan |-> num_timesteps]

\* variant: the task started before its timing is configured
CameraAfter_startFirst(l) ==
    CASE l = "open_co"    -> "open_ci"
      [] l = "open_ci"    -> "add_chan"
      [] l = "add_chan"   -> "start"
      [] l = "start"      -> "cfg_timing"
      [] l = "cfg_timing" -> "input"
      [] l = "input"      -> "exit"
      [] OTHER            -> "done"

\* the statement that follows statement l of camera_pulse.py when l returns
CameraAfter(l) ==
    CASE l = "open_co"    -> "open_ci"
      [] l = "open_ci"    -> "add_chan"
      [] l = "add_chan"   -> "cfg_timing"
      [] l = "cfg_timing" -> "start"
      [] l = "start"      -> "input"
      [] l = "input"      -> "exit"
      [] OTHER            -> "done"

\* variant: the script ends after the with-block, without the plot
ToneAfter_noPlot(l) ==
    CASE l = "open"       -> "add_chan"
      [] l = "add_chan"   -> "cfg_timing"
      [] l = "cfg_timing" -> "write"
      [] l = "write"      -> "wait"
      [] l = "wait"       -> "stop"
      [] l = "stop"       -> "exit"
      [] OTHER            -> "done"

\* the statement that follows statement l of tone.py when l returns
ToneAfter(l) ==
    CASE l = "open"       -> "add_chan"
      [] l = "add_chan"   -> "cfg_timing"
      [] l = "cfg_timing" -> "write"
      [] l = "write"      -> "wait"
      [] l = "wait"       -> "stop"
      [] l = "stop"       -> "exit"
      [] l = "exit"       -> "plot"
      [] l = "plot"       -> "show"
      [] l = "show"       -> "showing"
      [] OTHER            -> "done"

After(l) == IF script = "camera_pulse" THEN CameraAfter(l) ELSE ToneAfter(l)

\* variant: the exception is swallowed and the script carries on
OnRaise_carryOn(l) == After(l)

\* where control goes when statement l raises: out of the with-statement, which
\* closes the tasks entered so far; nothing catches the exception
OnRaise(l) == IF \E n \in DOMAIN task : task[n].state = "open" THEN "exit" ELSE "error"

Call(n, op, ok) == [task |-> n, op |-> op, ok |-> ok]

Min(a, b) == IF a <= b THEN a ELSE b

\* samples the device has generated c milliseconds after the start of a finite task
Generated(tk, c) ==
    IF paced THEN Min(tk.timing.samps_per_chan, (c * tk.timing.rate) \div 1000) ELSE 0

\* the finite generation is done
IsDone(tk, c) == Generated(tk, c) >= tk.timing.samps_per_chan

\* variant: a wait without timeout
TimedOut_never(c) == FALSE

\* wait_until_done gives up
TimedOut(c) == c >= TIMEOUT

Exited == pc \in {"done", "error"}

Init ==
    /\ script \in Scripts
    /\ pc = (IF script = "camera_pulse" THEN "open_co" ELSE "open")
    /\ task = [n \in {WithTasks(script)[i] : i \in 1..Len(WithTasks(script))} |-> NoTask]
    /\ calls = <<>>
    /\ err = "none"
    /\ stdin = "empty"
    /\ inputRead = FALSE
    /\ paced \in (IF script = "tone" THEN BOOLEAN ELSE {TRUE})
    /\ clock = 0
    /\ pulses = 0
    /\ figure = NoFigure

\* ------------------------------------------------- statements, both scripts
\* a driver call on task n at statement l: it returns and has effect eff on the
\* task, or raises and leaves the task as it was
Driver(l, n, op, eff) ==
    /\ pc = l
    /\ \E ok \in BOOLEAN :
         /\ calls' = Append(calls, Call(n, op, ok))
         /\ IF ok
            THEN /\ task' = [task EXCEPT ![n] = eff]
                 /\ pc' = After(l)
                 /\ err' = err
            ELSE /\ task' = task
                 /\ pc' = OnRaise(l)
                 /\ err' = "DaqError"

\* nidaqmx.Task() as n
Open(l, n) ==
    /\ Driver(l, n, "open", [NoTask EXCEPT !.state = "open"])
    /\ UNCHANGED <<script, stdin, inputRead, paced, clock, pulses, figure>>

\* leaving the with-statement: Task.__exit__ closes the task; one step closes the
\* next task of ExitOrder still open, the last one leaves the statement
Close ==
    /\ pc = "exit"
    /\ LET order == ExitOrder(script)
           open  == {i \in 1..Len(order) : task[order[i]].state = "open"}
       IN  /\ open # {}
           /\ LET i == CHOOSE j \in open : \A k \in open : j <= k
                  n == order[i]
              IN  /\ task' = [task EXCEPT ![n] = [@ EXCEPT !.state = "closed",
                                                            !.running = FALSE,
                                                            !.closes = @ + 1]]
                  /\ calls' = Append(calls, Call(n, "close", TRUE))
                  /\ pc' = IF open = {i}
                           THEN (IF err = "none" THEN After("exit") ELSE "error")
                           ELSE "exit"
    /\ UNCHANGED <<script, err, stdin, inputRead, paced, clock, pulses, figure>>

\* ------------------------------------------------------------ camera_pulse
OpenCo == script = "camera_pulse" /\ Open("open_co", "co_task")

OpenCi == script = "camera_pulse" /\ Open("open_ci", "ci_task")

AddCoPulseChan ==
    /\ script = "camera_pulse"
    /\ Driver("add_chan", "co_task", "add_chan", [task["co_task"] EXCEPT !.chan = CoPulseChan])
    /\ UNCHANGED <<script, stdin, inputRead, paced, clock, pulses, figure>>

CfgImplicitTiming ==
    /\ script = "camera_pulse"
    /\ Driver("cfg_timing", "co_task", "cfg_timing",
              [task["co_task"] EXCEPT !.timing = ImplicitTiming])
    /\ UNCHANGED <<script, stdin, inputRead, paced, clock, pulses, figure>>

CoStart ==
    /\ script = "camera_pulse"
    /\ Driver("start", "co_task", "start", [task["co_task"] EXCEPT !.running = TRUE])
    /\ UNCHANGED <<script, stdin, inputRead, paced, clock, pulses, figure>>

\* input(): blocks while stdin is empty; returns the line, or raises EOFError
Input ==
    /\ script = "camera_pulse"
    /\ pc = "input"
    /\ stdin # "empty"
    /\ IF stdin = "line"
       THEN /\ inputRead' = TRUE
            /\ stdin' = "empty"
            /\ calls' = Append(calls, Call("stdin", "input", TRUE))
            /\ pc' = After("input")
            /\ err' = err
       ELSE /\ inputRead' = inputRead
            /\ stdin' = stdin
            /\ calls' = Append(calls, Call("stdin", "input", FALSE))
            /\ pc' = OnRaise("input")
            /\ err' = "EOFError"
    /\ UNCHANGED <<script, task, paced, clock, pulses, figure>>

\* the counter emits one more pulse of the train
Pulse ==
    /\ script = "camera_pulse"
    /\ task["co_task"].running
    /\ pulses < MaxPulses
    /\ pulses' = pulses + 1
    /\ UNCHANGED <<script, pc, task, calls, err, stdin, inputRead, paced, clock, figure>>

\* the user types a line
StdinLine ==
    /\ script = "camera_pulse"
    /\ stdin = "empty"
    /\ ~Exited
    /\ stdin' = "line"
    /\ UNCHANGED <<script, pc, task, calls, err, inputRead, paced, clock, pulses, figure>>

\* standard input reaches end of file
StdinEof ==
    /\ script = "camera_pulse"
    /\ stdin = "empty"
    /\ ~Exited
    /\ stdin' = "eof"
    /\ UNCHANGED <<script, pc, task, calls, err, inputRead, paced, clock, pulses, figure>>

\* -------------------------------------------------------------------- tone
OpenTask == script = "tone" /\ Open("open", "task")

AddAoVoltageChan ==
    /\ script = "tone"
    /\ Driver("add_chan", "task", "add_chan", [task["task"] EXCEPT !.chan = AoVoltageChan])
    /\ UNCHANGED <<script, stdin, inputRead, paced, clock, pulses, figure>>

CfgSampClkTiming ==
    /\ script = "tone"
    /\ Driver("cfg_timing", "task", "cfg_timing", [task["task"] EXCEPT !.timing = SampClkTiming])
    /\ UNCHANGED <<script, stdin, inputRead, paced, clock, pulses, figure>>

\* task.write(tone_scaled, auto_start=True): the samples go to the task's buffer
\* and the task starts
Write ==
    /\ script = "tone"
    /\ Driver("write", "task", "write_auto_start",
              [task["task"] EXCEPT !.buffer = tone_scaled, !.running = TRUE])
    /\ clock' = 0
    /\ UNCHANGED <<script, stdin, inputRead, paced, pulses, figure>>

\* a millisecond passes while the script is blocked in wait_until_done
Tick ==
    /\ script = "tone"
    /\ pc = "wait"
    /\ ~IsDone(task["task"], clock)
    /\ clock < TIMEOUT
    /\ clock' = clock + 1
    /\ UNCHANGED <<script, pc, task, calls, err, stdin, inputRead, paced, pulses, figure>>

\* task.wait_until_done(timeout=DURATION + 1): returns once the generation is done,
\* raises when the timeout passes first
WaitUntilDone ==
    /\ script = "tone"
    /\ pc = "wait"
    /\ \/ /\ IsDone(task["task"], clock)
          /\ calls' = Append(calls, Call("task", "wait", TRUE))
          /\ pc' = After("wait")
          /\ err' = err
       \/ /\ ~IsDone(task["task"], clock)
          /\ TimedOut(clock)
          /\ calls' = Append(calls, Call("task", "wait", FALSE))
          /\ pc' = OnRaise("wait")
          /\ err' = "DaqError"
    /\ UNCHANGED <<script, task, stdin, inputRead, paced, clock, pulses, figure>>

Stop ==
    /\ script = "tone"
    /\ Driver("stop", "task", "stop", [task["task"] EXCEPT !.running = FALSE])
    /\ UNCHANGED <<script, stdin, inputRead, paced, clock, pulses, figure>>

\* ax = plt.subplot(111); ax.plot(t, tone); ax.set_xlabel(..); ax.set_ylabel(..)
Plot ==
    /\ script = "tone"
    /\ pc = "plot"
    /\ figure' = [figure EXCEPT !.x = t, !.y = tone,
                                !.xlabel = "Time (s)", !.ylabel = "Voltage (V)"]
    /\ pc' = After("plot")
    /\ UNCHANGED <<script, task, calls, err, stdin, inputRead, paced, clock, pulses>>

\* plt.show(): the figure window opens and the call blocks
Show ==
    /\ script = "tone"
    /\ pc = "show"
    /\ figure' = [figure EXCEPT !.window = "open"]
    /\ pc' = After("show")
    /\ UNCHANGED <<script, task, calls, err, stdin, inputRead, paced, clock, pulses>>

\* the user closes the figure window
CloseWindow ==
    /\ figure.window = "open"
    /\ figure' = [figure EXCEPT !.window = "closed"]
    /\ UNCHANGED <<script, pc, task, calls, err, stdin, inputRead, paced, clock, pulses>>

\* plt.show() returns once the window is closed; the script ends
ShowReturn ==
    /\ script = "tone"
    /\ pc = "showing"
    /\ figure.window = "closed"
    /\ pc' = After("showing")
    /\ UNCHANGED <<script, task, calls, err, stdin, inputRead, paced, clock, pulses, figure>>

\* ------------------------------------------------------------ specification
\* the steps of the script, the driver and the device
Program ==
    \/ OpenCo \/ OpenCi \/ AddCoPulseChan \/ CfgImplicitTiming \/ CoStart \/ Input
    \/ Pulse \/ Close
    \/ OpenTask \/ AddAoVoltageChan \/ CfgSampClkTiming \/ Write \/ Tick
    \/ WaitUntilDone \/ Stop \/ Plot \/ Show \/ ShowReturn

\* the steps of the user
User == StdinLine \/ StdinEof \/ CloseWindow

Next == Program \/ User

Spec == Init /\ [][Next]_vars

\* the script, the driver and the device keep running; the user owes nothing
FairSpec == Spec /\ WF_vars(Program)

\* --------------------------------------------------------------- properties
\* the output task of the script being run
OutputTask == IF script = "camera_pulse" THEN "co_task" ELSE "task"

\* what a call is, in the words "pick channel, pick timing mode, start, wait, stop"
Kind(c) ==
    CASE c.op = "add_chan"                      -> "channel"
      [] c.op = "cfg_timing"                    -> "timing"
      [] c.op \in {"start", "write_auto_start"} -> "start"
      [] c.op \in {"wait", "input"}             -> "wait"
      [] c.op = "stop"                          -> "stop"
      [] OTHER                                  -> c.op

NotOpenClose(c) == c.op \notin {"open", "close"}

\* the calls issued inside the with-block, in order
Issued == SelectSeq(calls, NotOpenClose)

KindsIssued == [i \in 1..Len(Issued) |-> Kind(Issued[i])]

FullOrder == <<"channel", "timing", "start", "wait", "stop">>

IsPrefix(p, q) == Len(p) <= Len(q) /\ \A i \in 1..Len(p) : p[i] = q[i]

Happened(c) == \E i \in 1..Len(calls) : calls[i] = c

Failed == \E i \in 1..Len(calls) : ~calls[i].ok

NoneOpen == \A n \in DOMAIN task : task[n].state # "open"

\* the with-block was left without an exception
LeftNormally == err = "none" /\ \A n \in DOMAIN task : task[n].state = "closed"

StartedBeforeConfigured ==
    \E n \in DOMAIN task :
        task[n].running /\ (task[n].chan = NoChan \/ task[n].timing = NoTiming)

\* C1 (as stated): in every run of either script the calls on the output task come
\* in the order channel, timing, start, wait, stop; the task is never started
\* before channel and timing are configured; and an explicit stop follows the wait.
C1_OrderWithExplicitStop ==
    /\ IsPrefix(KindsIssued, FullOrder)
    /\ ~StartedBeforeConfigured
    /\ LeftNormally => KindsIssued = FullOrder

\* C1 (amended): the order is channel, timing, start, wait in both scripts and the
\* task is never started before channel and timing are configured; tone then calls
\* stop explicitly, camera_pulse calls no stop: its task is stopped by the close.
C1_Order ==
    /\ IsPrefix(KindsIssued, FullOrder)
    /\ ~StartedBeforeConfigured
    /\ (LeftNormally /\ script = "tone") => KindsIssued = FullOrder
    /\ (LeftNormally /\ script = "camera_pulse") =>
           /\ KindsIssued = SubSeq(FullOrder, 1, 4)
           /\ ~task["co_task"].running
    /\ script = "camera_pulse" => \A i \in 1..Len(calls) : calls[i].op # "stop"

C1_Witness == script = "camera_pulse" /\ pc = "done" /\ err = "none" /\ inputRead

\* the script is blocked in a call that only the user can end
Blocked ==
    \/ pc = "input" /\ stdin = "empty"
    \/ pc = "showing" /\ figure.window = "open"

\* C2 (as stated): every run of each script eventually exits with every opened
\* task closed, without depending on any external event.
C2_AlwaysExits == <>(Exited /\ NoneOpen)

\* C2 (amended): a script that has ended has closed every task it opened, and every
\* run ends unless it stays blocked for ever in input() on an empty stdin
\* (camera_pulse) or in plt.show() on a figure window nobody closes (tone).
C2_ExitsUnlessBlocked ==
    /\ [](Exited => NoneOpen)
    /\ (<>Exited \/ <>[]Blocked)

C2_Witness == Exited /\ NoneOpen /\ (inputRead \/ figure.window = "closed")

CoStarted == Happened(Call("co_task", "start", TRUE))

CoConfigIsFixed ==
    script = "camera_pulse" =>
        /\ task["co_task"].chan \in {NoChan, CoPulseChan}
        /\ task["co_task"].timing \in {NoTiming, ImplicitTiming}
        /\ CoPulseChan.freq = 100 /\ CoPulseChan.duty_cycle * 10 = 2 * Milli
        /\ ImplicitTiming.sample_mode = "CONTINUOUS"
        /\ Happened(Call("co_task", "add_chan", TRUE)) => task["co_task"].chan = CoPulseChan
        /\ Happened(Call("co_task", "cfg_timing", TRUE)) =>
               task["co_task"].timing = ImplicitTiming

CoGenerating == task["co_task"].running /\ task["co_task"].state = "open"

\* C3 (as stated): the counter output has one pulse channel at 100 Hz, duty cycle
\* 0.2, CONTINUOUS implicit timing, never changed once configured; once started
\* the task is neither stopped nor closed until a line of input has been read.
C3_RunsUntilLineRead ==
    /\ CoConfigIsFixed
    /\ (script = "camera_pulse" /\ CoStarted /\ ~inputRead) => CoGenerating

\* C3 (amended): the same configuration; once started the task is neither stopped
\* nor closed until input() has returned a line or raised (end of file on stdin).
C3_RunsUntilInputEnds ==
    /\ CoConfigIsFixed
    /\ (script = "camera_pulse" /\ CoStarted
          /\ ~Happened(Call("stdin", "input", TRUE))
          /\ ~Happened(Call("stdin", "input", FALSE))) => CoGenerating
    /\ (script = "camera_pulse" /\ inputRead) => Happened(Call("stdin", "input", TRUE))

C3_Witness == script = "camera_pulse" /\ pc = "input" /\ CoGenerating /\ pulses = MaxPulses

\* C4: the analog output is FINITE at 44100 Hz with samps_per_chan = num_timesteps
\* = 11025, the buffer written has exactly that many samples, and the device never
\* generates more samples than were written.
C4_SampsMatchBuffer ==
    /\ num_timesteps = 11025
    /\ script = "tone" =>
        LET tk == task["task"]
        IN  /\ tk.timing # NoTiming =>
                  /\ tk.timing.sample_mode = "FINITE"
                  /\ tk.timing.rate = 44100
                  /\ tk.timing.samps_per_chan = num_timesteps
            /\ tk.buffer # <<>> =>
                  /\ Len(tk.buffer) = num_timesteps
                  /\ Len(tk.buffer) = tk.timing.samps_per_chan
                  /\ Generated(tk, clock) <= Len(tk.buffer)
                  /\ IsDone(tk, clock) => Generated(tk, clock) = Len(tk.buffer)

C4_Witness ==
    /\ script = "tone" /\ pc = "stop"
    /\ Len(task["task"].buffer) = 11025
    /\ Generated(task["task"], clock) = 11025

\* C5 (as stated): plotting is optional: once the tone has been played and the task
\* stopped and closed, the script can reach its end without showing a plot.
C5_PlotOptional ==
    (script = "tone" /\ pc = "plot") => ENABLED (Next /\ pc' = "done")

\* C5 (amended): plotting is not optional: every run of tone that plays the tone to
\* completion (write, wait_until_done, stop succeed) goes on to plot the waveform
\* and show the figure before it ends; only a failed run ends without a plot.
C5_PlotAlways ==
    script = "tone" =>
        /\ pc = "done" =>
              /\ Happened(Call("task", "write_auto_start", TRUE))
              /\ Happened(Call("task", "wait", TRUE))
              /\ Happened(Call("task", "stop", TRUE))
              /\ figure.y # <<>>
              /\ figure.window = "closed"
        /\ (Exited /\ figure.window = "none") => pc = "error"
        /\ pc = "plot" => (ENABLED Plot /\ ~ENABLED (Next /\ pc' # "show"))

C5_Witness == script = "tone" /\ pc = "done" /\ figure.window = "closed"

\* C6: the waveform plotted on the axis labelled "Voltage (V)" is the waveform
\* written to the analog output: sample for sample the same value.
C6_PlotIsWritten ==
    (script = "tone" /\ figure.y # <<>>) =>
        /\ figure.ylabel = "Voltage (V)"
        /\ Len(figure.y) = Len(task["task"].buffer)
        /\ \A i \in 1..Len(figure.y) : figure.y[i] = task["task"].buffer[i]

\* C7: no failure recovery: after a call inside the with-block fails nothing but
\* closes follow (no retry, no configuration, start, wait or stop), every opened
\* task is closed exactly once, the script ends in error; in tone stop is skipped
\* and no plot is shown.
C7_NoRecovery ==
    /\ \A i \in 1..Len(calls) : \A j \in 1..Len(calls) :
           (i < j /\ ~calls[i].ok) => calls[j].op = "close"
    /\ \A n \in DOMAIN task :
           /\ task[n].closes <= 1
           /\ (task[n].state = "closed") = (task[n].closes = 1)
           /\ Exited => task[n].state # "open"
           /\ (Exited /\ Happened(Call(n, "open", TRUE))) => task[n].closes = 1
    /\ Failed => (pc \in {"exit", "error"} /\ err # "none")
    /\ (Failed /\ script = "tone") =>
           /\ figure = NoFigure
           /\ ~Happened(Call("task", "stop", TRUE))
           /\ (\E i \in 1..Len(calls) : ~calls[i].ok /\ calls[i].op # "stop") =>
                  \A j \in 1..Len(calls) : calls[j].op # "stop"

C7_Witness ==
    /\ script = "tone" /\ pc = "error"
    /\ Happened(Call("task", "wait", FALSE))
    /\ task["task"].closes = 1

\* C8: every sample written to the analog output lies in -2.5 V .. +2.5 V (here in
\* units of 1/Milli V), the first sample is 0 V, for all num_timesteps samples.
\* The samples are looked at in the state task.write returns in; no later step
\* changes the buffer, whose length and first sample are looked at in every state.
C8_VoltageRange ==
    (script = "tone" /\ task["task"].buffer # <<>>) =>
        /\ Len(task["task"].buffer) = num_timesteps
        /\ task["task"].buffer[1] = 0
        /\ (pc = "wait" /\ clock = 0) =>
               \A i \in 1..Len(task["task"].buffer) :
                   /\ (0 - 25 * Milli) \div 10 <= task["task"].buffer[i]
                   /\ task["task"].buffer[i] <= (25 * Milli) \div 10

C8_Witness ==
    /\ script = "tone" /\ task["task"].buffer # <<>>
    /\ \E i \in 1..100 : task["task"].buffer[i] > 2400
    /\ \E i \in 1..100 : task["task"].buffer[i] < 0 - 2400

\* C9: the wait_until_done timeout (1.25 s) exceeds the time the device needs to
\* play the buffer at the configured rate (0.25 s); when the device plays at that
\* rate from the write on, the wait never times out and stop is called before the
\* task is closed.
C9_TimeoutSuffices ==
    /\ TIMEOUT = 1250
    /\ (num_timesteps * 1000) \div SAMPLE_RATE = 250
    /\ (num_timesteps * 1000) \div SAMPLE_RATE < TIMEOUT
    /\ (script = "tone" /\ paced) =>
          /\ ~Happened(Call("task", "wait", FALSE))
          /\ pc = "wait" => clock <= (num_timesteps * 1000) \div SAMPLE_RATE
          /\ (Happened(Call("task", "write_auto_start", TRUE)) /\ task["task"].state = "closed")
                => \E i \in 1..Len(calls) : \E j \in 1..Len(calls) :
                       /\ i < j
                       /\ calls[i].task = "task" /\ calls[i].op = "stop"
                       /\ calls[j].task = "task" /\ calls[j].op = "close"

C9_Witness ==
    /\ script = "tone" /\ paced /\ clock = 250
    /\ Happened(Call("task", "wait", TRUE))
    /\ task["task"].state = "closed"

\* C10: camera_pulse never uses ci_task: it has no channel, no timing and is never
\* started; on leaving the with-block both tasks are closed, ci_task first and
\* co_task second, and co_task is closed without a stop call before it.
C10_CiUnused ==
    script = "camera_pulse" =>
        /\ task["ci_task"].chan = NoChan
        /\ task["ci_task"].timing = NoTiming
        /\ ~task["ci_task"].running
        /\ \A i \in 1..Len(calls) :
               calls[i].task = "ci_task" => calls[i].op \in {"open", "close"}
        /\ Exited => NoneOpen
        /\ \A j \in 1..Len(calls) :
               calls[j] = Call("co_task", "close", TRUE) =>
                   /\ \A i \in 1..Len(calls) : calls[i].op # "stop"
                   /\ Happened(Call("ci_task", "open", TRUE)) =>
                          \E i \in 1..(j - 1) : calls[i] = Call("ci_task", "close", TRUE)

C10_Witness ==
    /\ script = "camera_pulse" /\ pc = "done"
    /\ task["ci_task"].state = "closed" /\ task["co_task"].state = "closed"
=============================================================================
